---- MODULE Spec2Model ----
(***************************************************************************)
(* Model of simsity's Service (src/simsity/service.py): a nearest          *)
(* neighbour lookup service built from an encoder, an indexer and a        *)
(* storage map, with save/load to a directory.                             *)
(*                                                                         *)
(* The encoder and the indexer are collaborators supplied by the caller.   *)
(* They are modelled by one concrete instance each:                        *)
(*   - the encoder learns a vocabulary at fit time and maps the "text"     *)
(*     field of a record to its position in that vocabulary;               *)
(*   - the indexer keeps the vectors it was handed last and answers a      *)
(*     query with the nearest positions, nearest first, ties by position.  *)
(***************************************************************************)
EXTENDS Integers, Sequences, FiniteSets, TLC

VARIABLES svc, fs, res, calls

vars == <<svc, fs, res, calls>>

(***************************************************************************)
(* Bounds of the model                                                     *)
(***************************************************************************)
MaxRows == 2

\* number of calls made on the service in one run
MaxCalls == 3

(***************************************************************************)
(* Data: records, dataframes, vectors                                      *)
(***************************************************************************)
Texts == {"a", "b"}

Fields == {"text", "tag"}

\* a row of a dataframe: field name -> scalar value
Rows == {[f \in Fields |-> IF f = "text" THEN t ELSE "x"] : t \in Texts}

SeqsUpTo(S, n) == UNION {[1..m -> S] : m \in 0..n}

DataFrames == SeqsUpTo(Rows, MaxRows)

\* the `features` argument: None (the empty tuple here) or a list of columns
FeatureChoices == {<<>>, <<"text">>}

\* vectors are one-dimensional codes; NoVec is Python's None
NoVec == -1

Codes == {0, 1}

VectorBatches == SeqsUpTo(Codes, MaxRows)

Range(s) == {s[i] : i \in DOMAIN s}

Abs(x) == IF x < 0 THEN -x ELSE x

(***************************************************************************)
(* df[features] when features is truthy, else df  (lines 59-61, 83-85)     *)
(***************************************************************************)
Subset(df, features) ==
    IF features # <<>>
    THEN [i \in DOMAIN df |-> [f \in Range(features) |-> df[i][f]]]
    ELSE df

(***************************************************************************)
(* {i: r for i, r in enumerate(subset.to_dict(orient="records"))}          *)
(* a mapping with the keys 0 .. N-1                                        *)
(***************************************************************************)
Enumerate(subset) == [i \in 0..(Len(subset) - 1) |-> subset[i + 1]]

(***************************************************************************)
(* The encoder.  kind: "estimator" (a BaseEstimator), "pipeline" (a        *)
(* Pipeline, which is a BaseEstimator too) or any other object with        *)
(* fit/transform.  steps: the fitted flag of each step (one step for a     *)
(* plain estimator).  vocab: the parameters learned by fit.                *)
(***************************************************************************)
AllFitted(enc) == \A i \in DOMAIN enc.steps : enc.steps[i]

\* sklearn's check_is_fitted: an estimator answers for itself, a Pipeline
\* answers for its last step
CheckIsFitted(enc) == enc.steps[Len(enc.steps)]

IsBaseEstimator(enc) == enc.kind \in {"estimator", "pipeline"}

IsPipeline(enc) == enc.kind = "pipeline"

\* position of text t in the vocabulary, Len(vocab) for an unknown text
Code(vocab, t) ==
    IF \E i \in DOMAIN vocab : vocab[i] = t
    THEN (CHOOSE i \in DOMAIN vocab : vocab[i] = t) - 1
    ELSE Len(vocab)

\* the distinct texts of the rows, in order of first occurrence
RECURSIVE Vocab(_)
Vocab(rows) ==
    IF rows = <<>> THEN <<>>
    ELSE LET init == Vocab(SubSeq(rows, 1, Len(rows) - 1))
             t == rows[Len(rows)]["text"]
         IN IF t \in Range(init) THEN init ELSE Append(init, t)

\* encoder.transform: NotFittedError unless every step is fitted.  This is the
\* encoder's contract (vectors, or the not-fitted signal); a collaborator
\* call that raises anything else is modelled for the training calls only,
\* by their fail argument.
Transform(enc, rows) ==
    IF AllFitted(enc)
    THEN [kind |-> "ok", data |-> [i \in DOMAIN rows |-> Code(enc.vocab, rows[i]["text"])]]
    ELSE [kind |-> "NotFitted", data |-> <<>>]

\* the encoder after encoder.fit(rows)
Fit(enc, rows) ==
    [enc EXCEPT !.steps = [i \in DOMAIN enc.steps |-> TRUE], !.vocab = Vocab(rows)]

\* encoder.fit_transform
FitTransform(enc, rows) ==
    [enc |-> Fit(enc, rows), data |-> Transform(Fit(enc, rows), rows).data]

(***************************************************************************)
(* The indexer: keeps the batch of vectors handed to index().              *)
(***************************************************************************)
NewIndexer == [vectors |-> <<>>]

Index(ix, data) == [ix EXCEPT !.vectors = data]

\* rank of 0-based position p for query vector v: nearest first, ties by
\* stored order
Rank(ix, v, p) ==
    Cardinality({q \in 0..(Len(ix.vectors) - 1) :
        \/ Abs(ix.vectors[q + 1] - v) < Abs(ix.vectors[p + 1] - v)
        \/ /\ Abs(ix.vectors[q + 1] - v) = Abs(ix.vectors[p + 1] - v)
           /\ q < p})

Min(a, b) == IF a < b THEN a ELSE b

\* indexer.query(v, n_neighbors): (positions, distances); it fails on a
\* missing vector and cannot return more neighbours than it holds
IndexerQuery(ix, v, k) ==
    IF v = NoVec
    THEN [kind |-> "IndexerError", idx |-> <<>>, dist |-> <<>>]
    ELSE LET m == Min(k, Len(ix.vectors))
             pos == [i \in 1..m |->
                       CHOOSE p \in 0..(Len(ix.vectors) - 1) : Rank(ix, v, p) = i - 1]
         IN [kind |-> "ok",
             idx |-> pos,
             dist |-> [i \in 1..m |-> Abs(ix.vectors[pos[i] + 1] - v)]]

(***************************************************************************)
(* Service._check_is_trained  (lines 32-49)                                *)
(* None (falsy) when the encoder is neither a BaseEstimator nor a Pipeline *)
(***************************************************************************)
CheckIsTrained(enc) ==
    IF IsBaseEstimator(enc) THEN CheckIsFitted(enc)
    ELSE IF IsPipeline(enc) THEN AllFitted(enc)
    ELSE FALSE

(***************************************************************************)
(* Service.__init__  (lines 24-30)                                         *)
(***************************************************************************)
NewService(encoder, indexer, storage) ==
    [encoder |-> encoder,
     indexer |-> indexer,
     storage |-> storage,
     trained |-> CheckIsTrained(encoder),
     indexed |-> FALSE]

(***************************************************************************)
(* self.storage = {i: r for i, r in enumerate(...)}  (lines 62, 86):       *)
(* the storage is replaced by the records of the subset                    *)
(***************************************************************************)
\* the records of the subset merged into the storage already held
StorageUpdate(s, subset) ==
    [s EXCEPT !.storage =
        [i \in (DOMAIN s.storage) \cup (DOMAIN Enumerate(subset)) |->
            IF i \in DOMAIN Enumerate(subset) THEN Enumerate(subset)[i]
            ELSE s.storage[i]]]

StorageAssign(s, subset) == [s EXCEPT !.storage = Enumerate(subset)]

(***************************************************************************)
(* Service.train_from_dataf  (lines 51-72)                                 *)
(* fail names the collaborator call that raises, if any: "encoder" (the    *)
(* transform, or the fit_transform that follows a NotFittedError) or       *)
(* "indexer" (indexer.index).  The result is the service as the call       *)
(* leaves it and the outcome seen by the caller.                           *)
(***************************************************************************)
\* train_from_dataf restoring the service when a collaborator raises
TrainFromDatafRollsBack(s, df, features, fail) ==
    LET subset == Subset(df, features)
        t == Transform(s.encoder, subset)
        ft == FitTransform(s.encoder, subset)
        s2 == [StorageAssign(s, subset) EXCEPT
                 !.encoder = IF t.kind = "NotFitted" THEN ft.enc ELSE s.encoder]
    IN IF fail = "encoder" THEN [svc |-> s, kind |-> "EncoderError"]
       ELSE IF fail = "indexer" THEN [svc |-> s, kind |-> "IndexerError"]
       ELSE [svc |-> [s2 EXCEPT
                        !.indexer = Index(s.indexer,
                                          IF t.kind = "NotFitted" THEN ft.data ELSE t.data),
                        !.trained = TRUE,
                        !.indexed = TRUE],
             kind |-> "ok"]

\* train_from_dataf calling fit_transform without trying transform first
TrainFromDatafAlwaysFits(s, df, features, fail) ==
    LET subset == Subset(df, features)
        s1 == StorageAssign(s, subset)
        ft == FitTransform(s.encoder, subset)
        s2 == [s1 EXCEPT !.encoder = ft.enc]
    IN IF fail = "encoder" THEN [svc |-> s1, kind |-> "EncoderError"]
       ELSE IF fail = "indexer" THEN [svc |-> s2, kind |-> "IndexerError"]
       ELSE [svc |-> [s2 EXCEPT !.indexer = Index(s.indexer, ft.data),
                                !.trained = TRUE,
                                !.indexed = TRUE],
             kind |-> "ok"]

\* train_from_dataf clearing both flags before it starts
TrainFromDatafInvalidates(s, df, features, fail) ==
    LET subset == Subset(df, features)
        s1 == [StorageAssign(s, subset) EXCEPT !.trained = FALSE, !.indexed = FALSE]
        t == Transform(s.encoder, subset)
        ft == FitTransform(s.encoder, subset)
        s2 == [s1 EXCEPT !.encoder = IF t.kind = "NotFitted" THEN ft.enc ELSE s.encoder]
    IN IF fail = "encoder" THEN [svc |-> s1, kind |-> "EncoderError"]
       ELSE IF fail = "indexer" THEN [svc |-> s2, kind |-> "IndexerError"]
       ELSE [svc |-> [s2 EXCEPT
                        !.indexer = Index(s.indexer,
                                          IF t.kind = "NotFitted" THEN ft.data ELSE t.data),
                        !.trained = TRUE,
                        !.indexed = TRUE],
             kind |-> "ok"]

TrainFromDataf(s, df, features, fail) ==
    LET subset == Subset(df, features)
        s1 == StorageAssign(s, subset)
        t == Transform(s.encoder, subset)
        enc2 == IF t.kind = "NotFitted" THEN FitTransform(s.encoder, subset).enc
                ELSE s.encoder
        data == IF t.kind = "NotFitted" THEN FitTransform(s.encoder, subset).data
                ELSE t.data
        s2 == [s1 EXCEPT !.encoder = enc2]
    IN IF fail = "encoder" THEN [svc |-> s1, kind |-> "EncoderError"]
       ELSE IF fail = "indexer" THEN [svc |-> s2, kind |-> "IndexerError"]
       ELSE [svc |-> [s2 EXCEPT !.indexer = Index(s.indexer, data),
                                !.trained = TRUE,
                                !.indexed = TRUE],
             kind |-> "ok"]

(***************************************************************************)
(* Service.train_from_transformed_data  (lines 74-89)                      *)
(***************************************************************************)
\* train_from_transformed_data ending like train_from_dataf: both flags set
TrainFromTransformedDataSetsTrained(s, df, transformed_data, features, fail) ==
    LET s1 == StorageAssign(s, Subset(df, features))
    IN IF fail = "indexer" THEN [svc |-> s1, kind |-> "IndexerError"]
       ELSE [svc |-> [s1 EXCEPT !.indexer = Index(s.indexer, transformed_data),
                                !.trained = TRUE,
                                !.indexed = TRUE],
             kind |-> "ok"]

TrainFromTransformedData(s, df, transformed_data, features, fail) ==
    LET subset == Subset(df, features)
        s1 == StorageAssign(s, subset)
    IN IF fail = "indexer" THEN [svc |-> s1, kind |-> "IndexerError"]
       ELSE [svc |-> [s1 EXCEPT !.indexer = Index(s.indexer, transformed_data),
                                !.indexed = TRUE],
             kind |-> "ok"]

(***************************************************************************)
(* Service.query  (lines 91-127)                                           *)
(* The outcome: kind is "ok" (a value is returned), "none" (the call       *)
(* falls off the end and returns None) or the error raised.  encoderCalled *)
(* and indexerQueried record which collaborators the call reached.         *)
(***************************************************************************)
OutFormats == {"list", "dataframe", "other"}

Failed(kind, enc, ixq) ==
    [kind |-> kind, value |-> <<>>, encoderCalled |-> enc, indexerQueried |-> ixq]

\* {**r["item"], "dist": r["dist"]}
Flatten(r) ==
    [f \in (DOMAIN r.item) \cup {"dist"} |-> IF f = "dist" THEN r.dist ELSE r.item[f]]

\* QueryBody with the indexer asked whether or not the service is indexed
QueryBodyUnguarded(s, n_neighbors, out, data, text) ==
    LET called == (data = NoVec)
        t == Transform(s.encoder, <<[f \in {"text"} |-> text]>>)
        vec == IF data # NoVec THEN data
               ELSE IF t.kind = "ok" THEN t.data[1] ELSE NoVec
        q == IndexerQuery(s.indexer, vec, n_neighbors)
    IN IF q.kind # "ok" THEN Failed(q.kind, called, TRUE)
       ELSE IF \E i \in DOMAIN q.idx : q.idx[i] \notin DOMAIN s.storage
       THEN Failed("KeyError", called, TRUE)
       ELSE [kind |-> IF out \in {"list", "dataframe"} THEN "ok" ELSE "none",
             value |-> IF out = "list"
                       THEN [i \in DOMAIN q.idx |->
                               [item |-> s.storage[q.idx[i]], dist |-> q.dist[i]]]
                       ELSE IF out = "dataframe"
                       THEN [i \in DOMAIN q.idx |->
                               Flatten([item |-> s.storage[q.idx[i]], dist |-> q.dist[i]])]
                       ELSE <<>>,
             encoderCalled |-> called, indexerQueried |-> TRUE]

\* lines 109-127: the vector of the query, the indexed check, the result
QueryBody(s, n_neighbors, out, data, text) ==
    LET called == (data = NoVec)
        row == [f \in {"text"} |-> text]
        t == Transform(s.encoder, <<row>>)
        \* a NotFittedError is caught and the RuntimeError built at line 113
        \* is not raised: data stays None
        vec == IF data # NoVec THEN data
               ELSE IF t.kind = "ok" THEN t.data[1] ELSE NoVec
    IN IF ~s.indexed THEN Failed("NotIndexed", called, FALSE)
       ELSE
       LET q == IndexerQuery(s.indexer, vec, n_neighbors)
       IN IF q.kind # "ok" THEN Failed(q.kind, called, TRUE)
          ELSE IF \E i \in DOMAIN q.idx : q.idx[i] \notin DOMAIN s.storage
          THEN Failed("KeyError", called, TRUE)
          ELSE
          LET r == [i \in DOMAIN q.idx |->
                      [item |-> s.storage[q.idx[i]], dist |-> q.dist[i]]]
          IN IF out = "list"
             THEN [kind |-> "ok", value |-> r,
                   encoderCalled |-> called, indexerQueried |-> TRUE]
             ELSE IF out = "dataframe"
             THEN [kind |-> "ok", value |-> [i \in DOMAIN r |-> Flatten(r[i])],
                   encoderCalled |-> called, indexerQueried |-> TRUE]
             ELSE [kind |-> "none", value |-> <<>>,
                   encoderCalled |-> called, indexerQueried |-> TRUE]

\* Query with the length check made after the indexed check
QueryLengthCheckedLast(s, n_neighbors, out, data, text) ==
    IF ~s.trained THEN Failed("NotTrained", FALSE, FALSE)
    ELSE IF ~s.indexed THEN Failed("NotIndexed", data = NoVec, FALSE)
    ELSE IF n_neighbors > Cardinality(DOMAIN s.storage)
    THEN Failed("InvalidArgument", FALSE, FALSE)
    ELSE QueryBody(s, n_neighbors, out, data, text)

\* Query with the trained check skipped when a vector is supplied
QueryTrustsVector(s, n_neighbors, out, data, text) ==
    IF ~s.trained /\ data = NoVec THEN Failed("NotTrained", FALSE, FALSE)
    ELSE IF n_neighbors > Cardinality(DOMAIN s.storage)
    THEN Failed("InvalidArgument", FALSE, FALSE)
    ELSE QueryBody(s, n_neighbors, out, data, text)

Query(s, n_neighbors, out, data, text) ==
    IF ~s.trained THEN Failed("NotTrained", FALSE, FALSE)
    ELSE IF n_neighbors > Cardinality(DOMAIN s.storage)
    THEN Failed("InvalidArgument", FALSE, FALSE)
    ELSE QueryBody(s, n_neighbors, out, data, text)

(***************************************************************************)
(* The file system: one directory per path.  files names the artifacts     *)
(* present in the directory; the other fields hold their contents.         *)
(***************************************************************************)
Paths == {"out", "old"}

FileNames == {"storage.json", "metadata.json", "encoder.joblib", "indexer.joblib"}

\* simsity.__version__ of the running process, and of an earlier release
Version == "0.2.0"

OldVersion == "0.1.0"

UnfittedEstimator == [kind |-> "estimator", steps |-> <<FALSE>>, vocab |-> <<>>]

NoDir ==
    [exists |-> FALSE, files |-> {}, version |-> "", storage |-> <<>>,
     encoder |-> UnfittedEstimator, indexer |-> NewIndexer]

\* str(i) of a non-negative integer, as json.dumps writes a dict key
Digit == <<"0", "1", "2", "3", "4", "5", "6", "7", "8", "9">>

RECURSIVE IntToStr(_)
IntToStr(n) ==
    IF n < 10 THEN Digit[n + 1] ELSE IntToStr(n \div 10) \o Digit[(n % 10) + 1]

\* int(k) of a decimal string
StrToInt(k) == CHOOSE n \in 0..(10 * (MaxRows + 1)) : IntToStr(n) = k

\* json.dumps(self.storage): a JSON object, its keys are strings
DumpStorage(storage) ==
    [k \in {IntToStr(i) : i \in DOMAIN storage} |-> storage[StrToInt(k)]]

\* the entries whose key is truthy: {int(k): v for ... if int(k)}
ParseStorageSkipsZero(js) ==
    [i \in {StrToInt(k) : k \in DOMAIN js} \ {0} |-> js[IntToStr(i)]]

\* {int(k): v for k, v in json.loads(...).items()}
ParseStorage(js) ==
    [i \in {StrToInt(k) : k \in DOMAIN js} |-> js[IntToStr(i)]]

(***************************************************************************)
(* Service.save  (lines 129-144): the directory as the call leaves it      *)
(***************************************************************************)
\* Save with the directory created before the trained check
SaveMkdirFirst(s, dir) ==
    IF ~s.trained THEN [kind |-> "NotTrained", dir |-> [dir EXCEPT !.exists = TRUE]]
    ELSE [kind |-> "ok",
          dir |-> [exists |-> TRUE,
                   files |-> dir.files \cup FileNames,
                   version |-> Version,
                   storage |-> DumpStorage(s.storage),
                   encoder |-> s.encoder,
                   indexer |-> s.indexer]]

\* Save refusing a service that is not indexed
SaveNeedsIndexed(s, dir) ==
    IF ~s.trained \/ ~s.indexed THEN [kind |-> "NotTrained", dir |-> dir]
    ELSE [kind |-> "ok",
          dir |-> [exists |-> TRUE,
                   files |-> dir.files \cup FileNames,
                   version |-> Version,
                   storage |-> DumpStorage(s.storage),
                   encoder |-> s.encoder,
                   indexer |-> s.indexer]]

Save(s, dir) ==
    IF ~s.trained THEN [kind |-> "NotTrained", dir |-> dir]
    ELSE [kind |-> "ok",
          dir |-> [exists |-> TRUE,
                   files |-> dir.files \cup FileNames,
                   version |-> Version,
                   storage |-> DumpStorage(s.storage),
                   encoder |-> s.encoder,
                   indexer |-> s.indexer]]

(***************************************************************************)
(* Service.load  (lines 146-168).  read: the files read by the call.       *)
(***************************************************************************)
NoService == NewService(UnfittedEstimator, NewIndexer, <<>>)

\* Load without the comparison of the version tags
LoadAnyVersion(dir) ==
    IF ~dir.exists \/ "metadata.json" \notin dir.files
    THEN [kind |-> "NotFound", svc |-> NoService, read |-> {}]
    ELSE [kind |-> "ok",
          svc |-> [NewService(dir.encoder, dir.indexer, ParseStorage(dir.storage))
                     EXCEPT !.trained = TRUE],
          read |-> FileNames]

Load(dir) ==
    IF ~dir.exists
    THEN [kind |-> "NotFound", svc |-> NoService, read |-> {}]
    ELSE IF "metadata.json" \notin dir.files
    THEN [kind |-> "NotFound", svc |-> NoService, read |-> {}]
    ELSE IF dir.version # Version
    THEN [kind |-> "VersionMismatch", svc |-> NoService, read |-> {"metadata.json"}]
    ELSE [kind |-> "ok",
          svc |-> [NewService(dir.encoder, dir.indexer, ParseStorage(dir.storage))
                     EXCEPT !.trained = TRUE],
          read |-> FileNames]

(***************************************************************************)
(* The state machine.  svc is the service the caller holds, fs the file    *)
(* system, res the last call: its name, its outcome and its arguments.     *)
(***************************************************************************)
FittedEstimator == [kind |-> "estimator", steps |-> <<TRUE>>, vocab |-> <<"a", "b">>]

\* a Pipeline whose last step is fitted and whose first step is not
HalfFittedPipeline == [kind |-> "pipeline", steps |-> <<FALSE, TRUE>>, vocab |-> <<"a", "b">>]

InitEncoders == {UnfittedEstimator, FittedEstimator, HalfFittedPipeline}

\* the `storage` argument of the constructor: None, or a storage map
InitStorages == {<<>>, Enumerate(<<[text |-> "a"]>>)}

\* a directory saved by an earlier release
OldDir ==
    [exists |-> TRUE, files |-> FileNames, version |-> OldVersion,
     storage |-> DumpStorage(Enumerate(<<[text |-> "a"]>>)),
     encoder |-> FittedEstimator, indexer |-> Index(NewIndexer, <<0>>)]

Fails == {"none", "encoder", "indexer"}

Call(op, kind, df, features, data, preLen, path) ==
    [op |-> op, kind |-> kind, df |-> df, features |-> features,
     data |-> data, preLen |-> preLen, path |-> path]

StorageLen(s) == Cardinality(DOMAIN s.storage)

Init ==
    /\ svc \in {NewService(e, NewIndexer, st) : e \in InitEncoders, st \in InitStorages}
    /\ fs = [p \in Paths |-> IF p = "old" THEN OldDir ELSE NoDir]
    /\ res = Call("init", "ok", <<>>, <<>>, NoVec, 0, "")
    /\ calls = 0

DoTrainFromDataf ==
    /\ calls < MaxCalls
    /\ \E df \in DataFrames, features \in FeatureChoices, fail \in Fails :
        LET o == TrainFromDataf(svc, df, features, fail)
        IN /\ svc' = o.svc
           /\ res' = Call("train_from_dataf", o.kind, df, features, NoVec,
                          StorageLen(svc), "")
    /\ calls' = calls + 1
    /\ UNCHANGED fs

DoTrainFromTransformedData ==
    /\ calls < MaxCalls
    /\ \E df \in DataFrames, data \in VectorBatches, features \in FeatureChoices,
          fail \in {"none", "indexer"} :
        LET o == TrainFromTransformedData(svc, df, data, features, fail)
        IN /\ svc' = o.svc
           /\ res' = Call("train_from_transformed_data", o.kind, df, features,
                          NoVec, StorageLen(svc), "")
    /\ calls' = calls + 1
    /\ UNCHANGED fs

\* a query that marks the service indexed once the indexer has answered
DoQueryMarksIndexed ==
    /\ calls < MaxCalls
    /\ \E k \in 0..(MaxRows + 1), out \in OutFormats, data \in Codes \cup {NoVec},
          text \in Texts :
        LET o == Query(svc, k, out, data, text)
        IN /\ res' = Call("query", o.kind, <<>>, <<>>, data, 0, "")
           /\ svc' = [svc EXCEPT !.indexed = TRUE]
    /\ calls' = calls + 1
    /\ UNCHANGED fs

DoQuery ==
    /\ calls < MaxCalls
    /\ \E k \in 0..(MaxRows + 1), out \in OutFormats, data \in Codes \cup {NoVec},
          text \in Texts :
        LET o == Query(svc, k, out, data, text)
        IN res' = Call("query", o.kind, <<>>, <<>>, data, 0, "")
    /\ calls' = calls + 1
    /\ UNCHANGED <<svc, fs>>

DoSave ==
    /\ calls < MaxCalls
    /\ \E p \in Paths :
        LET o == Save(svc, fs[p])
        IN /\ fs' = [fs EXCEPT ![p] = o.dir]
           /\ res' = Call("save", o.kind, <<>>, <<>>, NoVec, 0, p)
    /\ calls' = calls + 1
    /\ UNCHANGED svc

\* service = Service.load(path): on success the caller holds the new service
DoLoad ==
    /\ calls < MaxCalls
    /\ \E p \in Paths :
        LET o == Load(fs[p])
        IN /\ svc' = IF o.kind = "ok" THEN o.svc ELSE svc
           /\ res' = Call("load", o.kind, <<>>, <<>>, NoVec, 0, p)
    /\ calls' = calls + 1
    /\ UNCHANGED fs

Next ==
    \/ DoTrainFromDataf
    \/ DoTrainFromTransformedData
    \/ DoQuery
    \/ DoSave
    \/ DoLoad

Spec == Init /\ [][Next]_vars

(***************************************************************************)
(* Inputs of a query, for statements about every query in a state          *)
(***************************************************************************)
Ks == 0..(MaxRows + 1)

QueryData == Codes \cup {NoVec}

\* two query outcomes agree: same outcome kind and, for a result, same rows
SameOutcome(a, b) == a.kind = b.kind /\ (a.kind = "ok" => a.value = b.value)

(***************************************************************************)
(* C1: round trip.  Right after a trained and indexed service was saved    *)
(* to a path, loading that path succeeds and the loaded service answers    *)
(* every query with k <= len(storage) as the saving service does.          *)
(***************************************************************************)
C1_RoundTrip ==
    (res.op = "save" /\ res.kind = "ok" /\ svc.trained /\ svc.indexed) =>
        LET l == Load(fs[res.path])
        IN /\ l.kind = "ok"
           /\ \A k \in Ks, out \in OutFormats, data \in QueryData, text \in Texts :
                k <= StorageLen(svc) =>
                    SameOutcome(Query(l.svc, k, out, data, text),
                                Query(svc, k, out, data, text))

(***************************************************************************)
(* C2: in the state right after a successful load, trained and indexed are *)
(* both true, and no query with k <= len(storage) fails with "not trained" *)
(* or "not indexed".                                                       *)
(***************************************************************************)
C2_LoadQueryable ==
    (res.op = "load" /\ res.kind = "ok") =>
        /\ svc.trained
        /\ svc.indexed
        /\ \A k \in Ks, out \in OutFormats, data \in QueryData, text \in Texts :
             k <= StorageLen(svc) =>
                 Query(svc, k, out, data, text).kind \notin {"NotTrained", "NotIndexed"}

(***************************************************************************)
(* C3: whenever indexed is true, the index holds one vector per storage    *)
(* key, and every position the indexer returns is a key of storage.        *)
(***************************************************************************)
C3_IndexMatchesStorage ==
    svc.indexed =>
        /\ {i - 1 : i \in DOMAIN svc.indexer.vectors} = DOMAIN svc.storage
        /\ \A k \in Ks, v \in Codes :
             \A i \in DOMAIN IndexerQuery(svc.indexer, v, k).idx :
                 IndexerQuery(svc.indexer, v, k).idx[i] \in DOMAIN svc.storage

(***************************************************************************)
(* C4 as stated: in every reachable state, whether or not trained and      *)
(* indexed are true, a query with k > len(storage) fails with the          *)
(* "invalid argument" error.                                               *)
(***************************************************************************)
C4_TooManyAlways ==
    \A k \in Ks, out \in OutFormats, data \in QueryData, text \in Texts :
        k > StorageLen(svc) =>
            Query(svc, k, out, data, text).kind = "InvalidArgument"

(***************************************************************************)
(* C4 amended: a query with k > len(storage) fails with the "invalid       *)
(* argument" error in every reachable state where trained is true, whether *)
(* or not indexed is true and whether or not the encoder is fitted; where  *)
(* trained is false it fails with the "not trained" error instead.  In     *)
(* both cases neither the encoder nor the indexer is called.               *)
(***************************************************************************)
C4_TooManyWhenTrained ==
    \A k \in Ks, out \in OutFormats, data \in QueryData, text \in Texts :
        k > StorageLen(svc) =>
            Query(svc, k, out, data, text) =
                Failed(IF svc.trained THEN "InvalidArgument" ELSE "NotTrained",
                       FALSE, FALSE)

\* a query asked for too many neighbours of a trained service that is not
\* indexed and whose encoder is not fitted
C4_Witness ==
    /\ res.op = "query"
    /\ res.kind = "InvalidArgument"
    /\ ~svc.indexed
    /\ ~AllFitted(svc.encoder)

(***************************************************************************)
(* C5: where trained is false, every query (any k, output format, input,   *)
(* with or without a precomputed vector, indexed or not) fails with the    *)
(* "not trained" error, returns nothing and does not query the indexer.    *)
(***************************************************************************)
C5_UntrainedQueryFails ==
    ~svc.trained =>
        \A k \in Ks, out \in OutFormats, data \in QueryData, text \in Texts :
            LET o == Query(svc, k, out, data, text)
            IN o.kind = "NotTrained" /\ o.value = <<>> /\ ~o.indexerQueried

\* a query with a precomputed vector on an indexed service whose encoder was
\* never fit
C5_Witness ==
    /\ res.op = "query"
    /\ res.kind = "NotTrained"
    /\ res.data # NoVec
    /\ svc.indexed
    /\ ~svc.trained
    /\ ~AllFitted(svc.encoder)

(***************************************************************************)
(* C6: where trained is true and indexed is false, every query with        *)
(* k <= len(storage) fails with the "not indexed" error and returns        *)
(* nothing; and no query at all reaches the indexer while indexed is       *)
(* false.                                                                  *)
(***************************************************************************)
C6_UnindexedQueryFails ==
    ~svc.indexed =>
        \A k \in Ks, out \in OutFormats, data \in QueryData, text \in Texts :
            LET o == Query(svc, k, out, data, text)
            IN /\ ~o.indexerQueried
               /\ (svc.trained /\ k <= StorageLen(svc)) =>
                      (o.kind = "NotIndexed" /\ o.value = <<>>)

\* a query on a trained service that was never indexed and holds records
C6_Witness ==
    /\ res.op = "query"
    /\ res.kind = "NotIndexed"
    /\ svc.trained
    /\ ~svc.indexed
    /\ StorageLen(svc) > 0

(***************************************************************************)
(* C7: a save on a service whose trained flag is false fails with the      *)
(* "not trained" error and leaves the file system as it was: no directory  *)
(* is created and no file is written.                                      *)
(***************************************************************************)
C7_UntrainedSaveWritesNothing ==
    [][(res'.op = "save" /\ calls' = calls + 1 /\ ~svc.trained) =>
          (res'.kind = "NotTrained" /\ fs' = fs)]_vars

\* a failed save to a path that does not exist
C7_Witness ==
    /\ res.op = "save"
    /\ res.kind = "NotTrained"
    /\ ~fs[res.path].exists

(***************************************************************************)
(* C8: after a successful train_from_dataf(df, features) the storage has   *)
(* exactly len(df) entries, keyed 0 .. len(df)-1, and entry i is row i of  *)
(* df restricted to the features (the whole row when none are given);      *)
(* nothing of the storage held before the call survives.                   *)
(***************************************************************************)
C8_StorageReplaced ==
    (res.op = "train_from_dataf" /\ res.kind = "ok") =>
        /\ DOMAIN svc.storage = 0..(Len(res.df) - 1)
        /\ Cardinality(DOMAIN svc.storage) = Len(res.df)
        /\ \A i \in DOMAIN svc.storage :
             /\ DOMAIN svc.storage[i] =
                  (IF res.features = <<>> THEN Fields ELSE Range(res.features))
             /\ \A f \in DOMAIN svc.storage[i] : svc.storage[i][f] = res.df[i + 1][f]

\* a training on fewer records than the storage held before, with projection
C8_Witness ==
    /\ res.op = "train_from_dataf"
    /\ res.kind = "ok"
    /\ res.preLen > Len(res.df)
    /\ Len(res.df) > 0
    /\ res.features # <<>>

(***************************************************************************)
(* C9: on a trained and indexed service, every query with                  *)
(* k <= len(storage) returns exactly k results, the i-th being             *)
(* {item: storage[position_i], dist: distance_i} for the i-th pair the     *)
(* indexer returns, in the indexer's order.                                *)
(***************************************************************************)
C9_QueryReturnsK ==
    (svc.trained /\ svc.indexed) =>
        \A k \in Ks, data \in QueryData, text \in Texts :
            k <= StorageLen(svc) =>
                LET o == Query(svc, k, "list", data, text)
                    v == IF data # NoVec THEN data
                         ELSE Transform(svc.encoder, <<[f \in {"text"} |-> text]>>).data[1]
                    q == IndexerQuery(svc.indexer, v, k)
                IN /\ o.kind = "ok"
                   /\ Len(o.value) = k
                   /\ \A i \in 1..k :
                        /\ o.value[i].item = svc.storage[q.idx[i]]
                        /\ o.value[i].dist = q.dist[i]

(***************************************************************************)
(* C10: load returns a service only for a path that exists and whose       *)
(* version tag equals the running one.  On a missing path it fails with    *)
(* "not found"; on a path with another version tag it fails with           *)
(* "incompatible version" having read the metadata only; in both cases no  *)
(* service is constructed and the caller's service is as before.           *)
(***************************************************************************)
C10_LoadChecksPathAndVersion ==
    /\ \A p \in Paths :
         LET o == Load(fs[p])
         IN /\ ~fs[p].exists => (o.kind = "NotFound" /\ o.read = {})
            /\ (fs[p].exists /\ fs[p].version # Version) =>
                   (o.kind = "VersionMismatch" /\ o.read = {"metadata.json"})
            /\ o.kind = "ok" => (fs[p].exists /\ fs[p].version = Version)
            /\ o.kind # "ok" => o.svc = NoService
    /\ (res.op = "load" /\ res.kind = "ok") =>
           (fs[res.path].exists /\ fs[res.path].version = Version)

\* a load of a directory saved by another release
C10_Witness ==
    /\ res.op = "load"
    /\ res.kind = "VersionMismatch"
    /\ fs[res.path].exists
    /\ fs[res.path].version = OldVersion

(***************************************************************************)
(* The storage a training call on (df, features) is to leave: one entry    *)
(* per row, keyed from 0 in row order, each row restricted to the features *)
(***************************************************************************)
Columns(features) == IF features = <<>> THEN Fields ELSE Range(features)

IsStorageOf(st, df, features) ==
    /\ DOMAIN st = 0..(Len(df) - 1)
    /\ \A i \in DOMAIN st :
         /\ DOMAIN st[i] = Columns(features)
         /\ \A f \in DOMAIN st[i] : st[i][f] = df[i + 1][f]

(***************************************************************************)
(* C11: a train_from_dataf call that fails in the encoder or in            *)
(* indexer.index is not rolled back: it leaves the storage replaced by the *)
(* new records, and trained and indexed as they were before the call.      *)
(***************************************************************************)
C11_FailedTrainingNotRolledBack ==
    \A df \in DataFrames, features \in FeatureChoices, fail \in {"encoder", "indexer"} :
        LET o == TrainFromDataf(svc, df, features, fail)
        IN /\ o.kind # "ok"
           /\ IsStorageOf(o.svc.storage, df, features)
           /\ o.svc.trained = svc.trained
           /\ o.svc.indexed = svc.indexed

\* a first training that failed: the storage holds the new records and the
\* service is not indexed
C11_Witness ==
    /\ res.op = "train_from_dataf"
    /\ res.kind \in {"EncoderError", "IndexerError"}
    /\ calls = 1
    /\ Len(res.df) > res.preLen
    /\ IsStorageOf(svc.storage, res.df, res.features)
    /\ ~svc.indexed

(***************************************************************************)
(* C12: train_from_transformed_data replaces the storage, hands the        *)
(* supplied vectors to indexer.index and sets indexed, leaving trained and *)
(* the encoder as they were; a train_from_dataf that succeeds ends with    *)
(* trained and indexed both true.                                          *)
(***************************************************************************)
C12_PretransformedLeavesTrained ==
    /\ \A df \in DataFrames, batch \in VectorBatches, features \in FeatureChoices :
         LET o == TrainFromTransformedData(svc, df, batch, features, "none")
         IN /\ o.kind = "ok"
            /\ IsStorageOf(o.svc.storage, df, features)
            /\ o.svc.indexer.vectors = batch
            /\ o.svc.indexed
            /\ o.svc.trained = svc.trained
            /\ o.svc.encoder = svc.encoder
    /\ \A df \in DataFrames, features \in FeatureChoices :
         LET o == TrainFromDataf(svc, df, features, "none")
         IN o.kind = "ok" /\ o.svc.trained /\ o.svc.indexed
    /\ (res.op = "train_from_transformed_data" /\ res.kind = "ok") => svc.indexed
    /\ (res.op = "train_from_dataf" /\ res.kind = "ok") => (svc.trained /\ svc.indexed)

\* an indexed service that is not trained and whose encoder was never fit
C12_Witness ==
    /\ res.op = "train_from_transformed_data"
    /\ res.kind = "ok"
    /\ svc.indexed
    /\ ~svc.trained
    /\ ~AllFitted(svc.encoder)
    /\ Len(svc.indexer.vectors) > 0

(***************************************************************************)
(* C13: on a service with trained true, a query without a precomputed      *)
(* vector whose encoder signals "not fitted" fails with the runtime error  *)
(* "not trained"; it neither goes on to the indexed check nor hands a      *)
(* missing vector to the indexer.                                          *)
(***************************************************************************)
C13_NotFittedPropagates ==
    (svc.trained /\ ~AllFitted(svc.encoder)) =>
        \A k \in Ks, out \in OutFormats, text \in Texts :
            k <= StorageLen(svc) =>
                LET o == Query(svc, k, out, NoVec, text)
                IN o.kind = "NotTrained" /\ ~o.indexerQueried

(***************************************************************************)
(* C14: train_from_dataf fits the encoder only when transform signals      *)
(* "not fitted".  On a fitted encoder no call fits it: the encoder and its *)
(* learned parameters are as before.  On an encoder that is not fitted,    *)
(* the call fits it once, on the projected rows of this call.              *)
(***************************************************************************)
C14_FitOnlyWhenNotFitted ==
    \A df \in DataFrames, features \in FeatureChoices, fail \in Fails :
        LET o == TrainFromDataf(svc, df, features, fail)
        IN /\ AllFitted(svc.encoder) => o.svc.encoder = svc.encoder
           /\ (~AllFitted(svc.encoder) /\ fail # "encoder") =>
                  /\ AllFitted(o.svc.encoder)
                  /\ o.svc.encoder.kind = svc.encoder.kind
                  /\ Range(o.svc.encoder.vocab) = {df[i]["text"] : i \in DOMAIN df}
                  /\ o.kind = "ok" =>
                         \A i \in DOMAIN df :
                             o.svc.encoder.vocab[o.svc.indexer.vectors[i] + 1]
                                 = df[i]["text"]

\* a second, successful training on a fitted encoder whose vocabulary is not
\* the one these rows would give
C14_Witness ==
    /\ res.op = "train_from_dataf"
    /\ res.kind = "ok"
    /\ calls >= 2
    /\ AllFitted(svc.encoder)
    /\ Len(res.df) > 0
    /\ Range(svc.encoder.vocab) # {res.df[i]["text"] : i \in DOMAIN res.df}

(***************************************************************************)
(* C15: query and save never change the service: whatever their outcome,   *)
(* storage, trained and indexed (and the encoder and indexer held) are the *)
(* same after the call as before it.                                       *)
(***************************************************************************)
C15_QueryAndSaveReadOnly ==
    [][(res'.op \in {"query", "save"} /\ calls' = calls + 1) =>
          /\ svc'.storage = svc.storage
          /\ svc'.trained = svc.trained
          /\ svc'.indexed = svc.indexed
          /\ svc' = svc]_vars

\* a query on a trained service that is not indexed: it failed and the
\* service still is not indexed
C15_Witness ==
    /\ res.op = "query"
    /\ res.kind = "NotIndexed"
    /\ svc.trained
    /\ ~svc.indexed
    /\ calls >= 2

(***************************************************************************)
(* C16: save succeeds exactly when trained is true, indexed or not, and    *)
(* after it succeeded the directory holds the four artifacts: storage.json *)
(* keyed by the decimal strings of the positions, metadata.json with the   *)
(* running version, the encoder and the indexer.                           *)
(***************************************************************************)
C16_SaveWritesAllArtifacts ==
    /\ \A p \in Paths : (Save(svc, fs[p]).kind = "ok") <=> svc.trained
    /\ (res.op = "save" /\ res.kind = "ok") =>
         LET d == fs[res.path]
         IN /\ d.exists
            /\ FileNames \subseteq d.files
            /\ d.version = Version
            /\ DOMAIN d.storage = {IntToStr(i) : i \in DOMAIN svc.storage}
            /\ \A i \in DOMAIN svc.storage : d.storage[IntToStr(i)] = svc.storage[i]
            /\ d.encoder = svc.encoder
            /\ d.indexer = svc.indexer

\* a save of a trained service that is not indexed and holds records
C16_Witness ==
    /\ res.op = "save"
    /\ res.kind = "ok"
    /\ svc.trained
    /\ ~svc.indexed
    /\ StorageLen(svc) > 0

(***************************************************************************)
(* C17: the storage of the service that load returns for a directory just  *)
(* saved equals the storage of the saving service: the same integer keys   *)
(* 0 .. N-1 (N = 0 included) and the same records.                         *)
(***************************************************************************)
C17_StorageRoundTrip ==
    (res.op = "save" /\ res.kind = "ok") =>
        LET l == Load(fs[res.path])
        IN /\ l.kind = "ok"
           /\ DOMAIN l.svc.storage = 0..(StorageLen(svc) - 1)
           /\ DOMAIN l.svc.storage = DOMAIN svc.storage
           /\ \A i \in DOMAIN svc.storage : l.svc.storage[i] = svc.storage[i]

\* a save of a service that holds MaxRows records
C17_Witness ==
    /\ res.op = "save"
    /\ res.kind = "ok"
    /\ StorageLen(svc) = MaxRows

(***************************************************************************)
(* C18: on a trained and indexed service, a query with k <= len(storage)   *)
(* and an output format other than "list" and "dataframe" fails with an    *)
(* error; it does not complete returning nothing.                          *)
(***************************************************************************)
C18_UnknownFormatFails ==
    (svc.trained /\ svc.indexed) =>
        \A k \in Ks, data \in QueryData, text \in Texts :
            k <= StorageLen(svc) =>
                Query(svc, k, "other", data, text).kind \notin {"ok", "none"}

(***************************************************************************)
(* C19: on a service instance the flags are monotone: no call of           *)
(* train_from_dataf, train_from_transformed_data, query or save, whether   *)
(* it succeeds or fails, turns trained or indexed from true to false.      *)
(***************************************************************************)
C19_FlagsMonotone ==
    [][(res'.op \in {"train_from_dataf", "train_from_transformed_data", "query", "save"}
        /\ calls' = calls + 1) =>
          /\ svc.trained => svc'.trained
          /\ svc.indexed => svc'.indexed]_vars

\* a training that failed on a service that was trained and indexed before
C19_Witness ==
    /\ res.op \in {"train_from_dataf", "train_from_transformed_data"}
    /\ res.kind # "ok"
    /\ svc.trained
    /\ svc.indexed

====
